---------------------------- MODULE Spec2Model ----------------------------
(***************************************************************************)
(* Model of the read-processing core of dms_tools2 (dms_tools2/utils.py). *)
(* The functions are modelled by their pure-Python bodies (the branch     *)
(* taken with use_cutils=False).  A Python str is a sequence of           *)
(* one-character strings, so 'ATG' is <<"A", "T", "G">>.                  *)
(***************************************************************************)
EXTENDS Integers, Sequences, FiniteSets, TLC

VARIABLES
    \* alignSubamplicon: its arguments and the value it returned
    r1, r2, refseqstart, refseqend, maxmuts, maxN, chartype, aligned,
    \* incrementCounts: the calls to make, the table, the table before the
    \* last call, the calls made (in order) and the exception raised
    subamplicons, counts, prevcounts, applied, err,
    \* workers: the worker of each call, each worker's table, the calls made
    \* and the sum of the tables
    assign, wcounts, wdone, merged,
    \* buildReadConsensus: its arguments and the value it returned
    reads, minreads, minconcur, consensus,
    \* lowQtoN: its arguments and the value it returned
    lowq_r, lowq_q, lowq_minq, lowq_out,
    \* reverseComplement: its argument, the value it returned and the value
    \* it returned for that value
    rc_s, rc_once, rc_twice,
    \* annotateCodonCounts: the caller's table, that table as it was before
    \* the call, the table returned and the table returned for that table
    annot_counts, annot_before, annot_df, annot_df2,
    \* adjustErrorCounts: its arguments and the value it returned
    adj_errcounts, adj_counts, adj_maxexcess, adj_out,
    \* renumberSites: the renumbering scheme, the site columns of the input
    \* files, missing, and the outcome (the exception raised and the site
    \* columns of the output files written)
    renumb, infiles, missing, renumbered

alignVars == <<r1, r2, refseqstart, refseqend, maxmuts, maxN, chartype, aligned>>

countVars == <<subamplicons, counts, prevcounts, applied, err>>

workerVars == <<assign, wcounts, wdone, merged>>

consensusVars == <<reads, minreads, minconcur, consensus>>

lowqVars == <<lowq_r, lowq_q, lowq_minq, lowq_out>>

rcVars == <<rc_s, rc_once, rc_twice>>

annotVars == <<annot_counts, annot_before, annot_df, annot_df2>>

adjustVars == <<adj_errcounts, adj_counts, adj_maxexcess, adj_out>>

renumbVars == <<renumb, infiles, missing, renumbered>>

\* The variables of the read utilities and of the table functions.
utilVars == <<lowqVars, rcVars, annotVars, adjustVars, renumbVars>>

vars == <<alignVars, countVars, workerVars, consensusVars, utilVars>>

-----------------------------------------------------------------------------
(* Bounds of the model *)

MaxReadLen == 3
MaxSubLen == 6
MaxRefStart == 3
MaxMuts == 1
MaxAmbig == 1
BatchSize == 2
NumWorkers == 2
MaxReads == 2
MaxConsLen == 2
MaxMinReads == 2
MaxQualLen == 2
MaxRcLen == 3
MaxCodonCount == 1
MaxCharCount == 2
MaxExcess == 1
MaxOutside == 2
MaxBadReadLen == 1
MaxRows == 2
MaxOrderLen == 1

-----------------------------------------------------------------------------
(* Package constants and Python primitives *)

\* dms_tools2.NTS: the called nucleotides.
NTS == {"A", "C", "G", "T"}

\* dms_tools2.NTCOMPLEMENT, as the doctest of reverseComplement shows it:
\* A<->T, C<->G, N<->N.
NTCOMPLEMENT == [nt \in NTS \cup {"N"} |->
    CASE nt = "A" -> "T" [] nt = "T" -> "A" [] nt = "C" -> "G"
      [] nt = "G" -> "C" [] OTHER -> "N"]

\* dms_tools2.CODONS: every triple of called nucleotides.
CODONS == {<<x, y, z>> : x \in NTS, y \in NTS, z \in NTS}

\* The Q-score symbols of the doctest of lowQtoN (Sanger ASCII encoding).
QualityChars == {"+", "0", "<"}

\* Python's ord() of the characters of a read and of the Q-score symbols:
\* str values compare by it.
ord == [c \in NTS \cup {"N"} \cup QualityChars |->
    CASE c = "+" -> 43 [] c = "0" -> 48 [] c = "<" -> 60
      [] c = "A" -> 65 [] c = "C" -> 67 [] c = "G" -> 71 [] c = "N" -> 78
      [] OTHER -> 84]

\* Strings over the alphabet S of length at most n.
StrUpTo(S, n) == UNION {[1..k -> S] : k \in 0..n}

\* Python's s[a:b] (indices may be negative or past the end).
PyIndex(n, a) == IF a < 0 THEN (IF a + n < 0 THEN 0 ELSE a + n)
                 ELSE (IF a > n THEN n ELSE a)

PySlice(s, a, b) ==
    LET lo == PyIndex(Len(s), a)
        hi == PyIndex(Len(s), b)
    IN  IF lo >= hi THEN <<>> ELSE SubSeq(s, lo + 1, hi)

\* Python's s.count('N').
CountN(s) == Cardinality({i \in 1..Len(s) : s[i] = "N"})

\* Python's ('N' in s).
HasN(s) == \E i \in 1..Len(s) : s[i] = "N"

-----------------------------------------------------------------------------
(* lowQtoN *)

qualityOk_gt(qi, minq) == ord[qi] > ord[minq]

\* qi >= minq, on one-character strings.
qualityOk(qi, minq) == ord[qi] >= ord[minq]

\* lowQtoN(r, q, minq, use_cutils=False).
lowQtoN(r, q, minq) ==
    IF Len(r) # Len(q)
    THEN [kind |-> "AssertionError", str |-> <<>>]
    ELSE [kind |-> "str",
          str |-> [i \in 1..Len(r) |->
                      IF qualityOk(q[i], minq) THEN r[i] ELSE "N"]]

-----------------------------------------------------------------------------
(* reverseComplement *)

reverseComplement_droplast(s) ==
    [i \in 1..(Len(s) - 1) |-> NTCOMPLEMENT[s[Len(s) + 1 - i]]]

reverseComplement(s) == [i \in 1..Len(s) |-> NTCOMPLEMENT[s[Len(s) + 1 - i]]]

-----------------------------------------------------------------------------
(* alignSubamplicon *)

\* The doctest's reference sequence.
refseq == <<"A", "T", "G", "G", "G", "G", "A", "A", "A">>

\* mergeSite with a disagreement in the overlap resolved in favour of r1.
mergeSite_r1wins(rd1, r2r, d, i) ==
    IF i < d
    THEN IF i < Len(rd1) THEN rd1[i + 1] ELSE "N"
    ELSE IF i < Len(rd1)
         THEN IF rd1[i + 1] = "N" THEN r2r[i - d + 1] ELSE rd1[i + 1]
         ELSE r2r[i - d + 1]

\* One pass of the loop that merges r1 with the reverse-complemented r2r;
\* i is the 0-based position, d is len_subamplicon_minus_len_r2.
mergeSite(rd1, r2r, d, i) ==
    IF i < d
    THEN IF i < Len(rd1) THEN rd1[i + 1] ELSE "N"
    ELSE IF i < Len(rd1)
         THEN LET r1i == rd1[i + 1]
                  r2i == r2r[i - d + 1]
              IN  IF r1i = r2i THEN r1i
                  ELSE IF r1i = "N" THEN r2i
                  ELSE IF r2i = "N" THEN r1i
                  ELSE "N"
         ELSE r2r[i - d + 1]

mergeReads(rd1, r2r, rstart, rend) ==
    LET len_subamplicon == rend - rstart + 1
        d == len_subamplicon - Len(r2r)
    IN  IF len_subamplicon <= 0 THEN <<>>
        ELSE [j \in 1..len_subamplicon |-> mergeSite(rd1, r2r, d, j - 1)]

\* startcodon and codonshift of the mutation gate, by the phase of rstart.
alignStartcodon(rstart) ==
    IF rstart % 3 = 1 THEN (rstart + 2) \div 3
    ELSE IF rstart % 3 = 2 THEN (rstart + 1) \div 3 + 1
    ELSE rstart \div 3 + 1

\* alignCodonshift with the shifts of phases 2 and 0 exchanged.
alignCodonshift_swapped(rstart) ==
    IF rstart % 3 = 1 THEN 0
    ELSE IF rstart % 3 = 2 THEN 1
    ELSE 2

alignCodonshift(rstart) ==
    IF rstart % 3 = 1 THEN 0
    ELSE IF rstart % 3 = 2 THEN 2
    ELSE 1

\* The loop over icodon, with its early return.  compared records, for each
\* codon the loop looked at, the codon's number and the 0-based offset of its
\* first character in the subamplicon.
RECURSIVE codonGate(_, _, _, _, _, _, _, _)
codonGate(ref, subamplicon, startcodon, codonshift, lastcodon, mmuts, icodon, acc) ==
    IF icodon > lastcodon
    THEN [kind |-> "str", nmuts |-> acc.nmuts, compared |-> acc.compared]
    ELSE LET off == 3 * (icodon - startcodon) + codonshift
             mutcodon == PySlice(subamplicon, off, off + 3)
             ismut == (~HasN(mutcodon))
                        /\ mutcodon # PySlice(ref, 3 * icodon - 3, 3 * icodon)
             nmuts == IF ismut THEN acc.nmuts + 1 ELSE acc.nmuts
             compared == Append(acc.compared, [icodon |-> icodon, offset |-> off])
         IN  IF ismut /\ nmuts > mmuts
             THEN [kind |-> "False", nmuts |-> nmuts, compared |-> compared]
             ELSE codonGate(ref, subamplicon, startcodon, codonshift, lastcodon,
                            mmuts, icodon + 1,
                            [nmuts |-> nmuts, compared |-> compared])

\* tooManyN with >= for >.
tooManyN_ge(subamplicon, mN) == CountN(subamplicon) >= mN

\* The ambiguity gate.
tooManyN(subamplicon, mN) == CountN(subamplicon) > mN

\* The value returned: kind is "str" (the subamplicon is returned), "False"
\* (the pair is rejected) or "AssertionError"; gate names the test that
\* rejected.  merged, nmuts and compared expose the locals of the call.
alignSubamplicon(ref, rd1, rd2, rstart, rend, mmuts, mN, ctype) ==
    LET r2r == reverseComplement(rd2)
        subamplicon == mergeReads(rd1, r2r, rstart, rend)
    IN  IF ctype # "codon" \/ Len(ref) % 3 # 0
        THEN [kind |-> "AssertionError", gate |-> "none", merged |-> <<>>,
              nmuts |-> 0, compared |-> <<>>]
        ELSE IF tooManyN(subamplicon, mN)
        THEN [kind |-> "False", gate |-> "maxN", merged |-> subamplicon,
              nmuts |-> 0, compared |-> <<>>]
        ELSE LET g == codonGate(ref, subamplicon, alignStartcodon(rstart),
                                alignCodonshift(rstart), rend \div 3, mmuts,
                                alignStartcodon(rstart),
                                [nmuts |-> 0, compared |-> <<>>])
             IN  [kind |-> g.kind,
                  gate |-> IF g.kind = "False" THEN "maxmuts" ELSE "none",
                  merged |-> subamplicon, nmuts |-> g.nmuts,
                  compared |-> g.compared]

-----------------------------------------------------------------------------
(* incrementCounts *)

\* Number of sites of the table (the codons of refseq).
codonlen == Len(refseq) \div 3

\* incStartcodon with the startcodon of alignSubamplicon in phase 2.
incStartcodon_phase2(rstart) ==
    IF rstart % 3 = 1 THEN (rstart + 2) \div 3 - 1
    ELSE IF rstart % 3 = 2 THEN (rstart + 1) \div 3 + 1
    ELSE rstart \div 3

\* startcodon (0-based) and codonshift, by the phase of rstart.
incStartcodon(rstart) ==
    IF rstart % 3 = 1 THEN (rstart + 2) \div 3 - 1
    ELSE IF rstart % 3 = 2 THEN (rstart + 1) \div 3
    ELSE rstart \div 3

\* incCodonshift without the shift to the first complete codon.
incCodonshift_noshift(rstart) == 0

incCodonshift(rstart) ==
    IF rstart % 3 = 1 THEN 0
    ELSE IF rstart % 3 = 2 THEN 2
    ELSE 1

\* 1-based position of Python's list index j in a list of length n; 0 when
\* the index is out of range.
PyListPos(n, j) ==
    IF 0 <= j /\ j < n THEN j + 1
    ELSE IF j < 0 /\ j + n >= 0 THEN j + n + 1
    ELSE 0

\* incCell clearing the counts of the other codons at the site.
incCell_lastwins(cnt, codon, pos) ==
    [c \in DOMAIN cnt |->
        IF c = codon THEN [cnt[c] EXCEPT ![pos] = @ + 1]
        ELSE [cnt[c] EXCEPT ![pos] = 0]]

\* counts[codon][startcodon + i] += 1
incCell(cnt, codon, pos) == [cnt EXCEPT ![codon][pos] = @ + 1]

\* skipCodon without the test for N.
skipCodon_never(codon) == FALSE

\* not ('N' not in codon)
skipCodon(codon) == HasN(codon)

\* The loop over the codons of shiftedsubamplicon; an exception leaves the
\* increments already made.
RECURSIVE incLoop(_, _, _, _)
incLoop(shiftedsubamplicon, startcodon, i, cnt) ==
    IF i >= Len(shiftedsubamplicon) \div 3
    THEN [counts |-> cnt, err |-> "none"]
    ELSE LET codon == PySlice(shiftedsubamplicon, 3 * i, 3 * i + 3)
         IN  IF skipCodon(codon)
             THEN incLoop(shiftedsubamplicon, startcodon, i + 1, cnt)
             ELSE IF codon \notin DOMAIN cnt
             THEN [counts |-> cnt, err |-> "KeyError"]
             ELSE IF PyListPos(Len(cnt[codon]), startcodon + i) = 0
             THEN [counts |-> cnt, err |-> "IndexError"]
             ELSE incLoop(shiftedsubamplicon, startcodon, i + 1,
                          incCell(cnt, codon,
                                  PyListPos(Len(cnt[codon]), startcodon + i)))

\* incrementCounts with the test of chartype after the loop.
incrementCounts_latecheck(rstart, subamplicon, ctype, cnt) ==
    LET res == incLoop(PySlice(subamplicon, incCodonshift(rstart),
                               Len(subamplicon)),
                       incStartcodon(rstart), 0, cnt)
    IN  IF ctype # "codon" /\ res.err = "none"
        THEN [counts |-> res.counts, err |-> "ValueError"]
        ELSE res

\* The table after the call and the exception raised ("none": it returned).
incrementCounts(rstart, subamplicon, ctype, cnt) ==
    IF ctype # "codon"
    THEN [counts |-> cnt, err |-> "ValueError"]
    ELSE incLoop(PySlice(subamplicon, incCodonshift(rstart), Len(subamplicon)),
                 incStartcodon(rstart), 0, cnt)

-----------------------------------------------------------------------------
(* buildReadConsensus *)

\* max(readlens); 0 stands for the ValueError of max([]), see
\* buildReadConsensus.
maxReadLen(rds) ==
    IF Len(rds) = 0 THEN 0
    ELSE CHOOSE m \in {Len(rds[k]) : k \in 1..Len(rds)} :
            \A k \in 1..Len(rds) : Len(rds[k]) <= m

\* The dict counts at 0-based position i after the loop has taken reads
\* 1..k: its items [x, n] in the order in which the keys were inserted.
RECURSIVE countsItems(_, _, _)
countsItems(rds, i, k) ==
    IF k = 0 THEN <<>>
    ELSE LET items == countsItems(rds, i, k - 1)
             r == rds[k]
         IN  IF Len(r) > i /\ r[i + 1] # "N"
             THEN IF \E j \in 1..Len(items) : items[j].x = r[i + 1]
                  THEN [j \in 1..Len(items) |->
                          IF items[j].x = r[i + 1]
                          THEN [x |-> items[j].x, n |-> items[j].n + 1]
                          ELSE items[j]]
                  ELSE Append(items, [x |-> r[i + 1], n |-> 1])
             ELSE items

\* counts.items() after the loop over the reads.
siteItems(rds, i) == countsItems(rds, i, Len(rds))

\* counts[x] after the loop over the reads, at 0-based position i; 0 for a
\* character that is no key.
siteCount(rds, i, x) ==
    LET items == siteItems(rds, i)
    IN  IF \E j \in 1..Len(items) : items[j].x = x
        THEN items[CHOOSE j \in 1..Len(items) : items[j].x = x].n
        ELSE 0

\* The keys of counts at position i.
siteKeys(rds, i) ==
    LET items == siteItems(rds, i)
    IN  {items[j].x : j \in 1..Len(items)}

RECURSIVE sumItems(_, _)
sumItems(items, k) == IF k = 0 THEN 0 ELSE items[k].n + sumItems(items, k - 1)

\* sum(counts.values())
siteTotal(rds, i) ==
    LET items == siteItems(rds, i)
    IN  sumItems(items, Len(items))

\* sortedLast with ties in the count broken towards the smallest character.
sortedLast_tiefirst(rds, i) ==
    CHOOSE x \in siteKeys(rds, i) :
        \A y \in siteKeys(rds, i) :
            \/ siteCount(rds, i, y) < siteCount(rds, i, x)
            \/ siteCount(rds, i, y) = siteCount(rds, i, x) /\ ord[y] >= ord[x]

\* sortedLast as max(counts, key=counts.get): of the keys with the greatest
\* count, the one inserted first.
sortedLast_firstseen(rds, i) ==
    LET items == siteItems(rds, i)
        first == CHOOSE j \in 1..Len(items) :
                    /\ \A k \in 1..Len(items) : items[k].n <= items[j].n
                    /\ \A k \in 1..(j - 1) : items[k].n < items[j].n
    IN  items[first].x

\* xmax of sorted([(n, x) for (x, n) in counts.items()])[-1]: the greatest
\* pair, by count and then by character.
sortedLast(rds, i) ==
    LET items == siteItems(rds, i)
        last == CHOOSE j \in 1..Len(items) :
                    \A k \in 1..Len(items) :
                        \/ items[k].n < items[j].n
                        \/ items[k].n = items[j].n
                              /\ ord[items[k].x] <= ord[items[j].x]
    IN  items[last].x

\* nmax / float(ntot) >= minconcur, for minconcur = num / den.
meetsConcur(nmax, ntot, mconcur) ==
    nmax * mconcur.den >= mconcur.num * ntot

\* One pass of the loop over the positions: the character appended (ch),
\* xmax ("" when the pass did not compute it) and the exception raised.
consensusSite(rds, i, mreads, mconcur) ==
    LET ntot == siteTotal(rds, i)
    IN  IF ntot < mreads
        THEN [ch |-> "N", xmax |-> "", err |-> "none"]
        ELSE IF siteKeys(rds, i) = {}
        THEN [ch |-> "", xmax |-> "", err |-> "IndexError"]
        ELSE LET xmax == sortedLast(rds, i)
                 nmax == siteCount(rds, i, xmax)
             IN  [ch |-> IF meetsConcur(nmax, ntot, mconcur) THEN xmax ELSE "N",
                  xmax |-> xmax, err |-> "none"]

\* The value returned: kind is "str" (consensus is returned) or the exception
\* raised; consensus and xmaxs hold what the passes made before it.
RECURSIVE consensusLoop(_, _, _, _, _, _)
consensusLoop(rds, maxlen, mreads, mconcur, i, acc) ==
    IF i >= maxlen
    THEN [kind |-> "str", consensus |-> acc.consensus, xmaxs |-> acc.xmaxs]
    ELSE LET site == consensusSite(rds, i, mreads, mconcur)
         IN  IF site.err # "none"
             THEN [kind |-> site.err, consensus |-> acc.consensus,
                   xmaxs |-> acc.xmaxs]
             ELSE consensusLoop(rds, maxlen, mreads, mconcur, i + 1,
                                [consensus |-> Append(acc.consensus, site.ch),
                                 xmaxs |-> Append(acc.xmaxs, site.xmax)])

buildReadConsensus(rds, mreads, mconcur) ==
    IF Len(rds) = 0
    THEN [kind |-> "ValueError", consensus |-> <<>>, xmaxs |-> <<>>]
    ELSE consensusLoop(rds, maxReadLen(rds), mreads, mconcur, 0,
                       [consensus |-> <<>>, xmaxs |-> <<>>])

-----------------------------------------------------------------------------
(* Specification of the aligner: a caller aligns one read pair after another *)

\* Nucleotides the reads are drawn from (r2 is given as sequenced; its
\* reverse complement is over letters of r1).
R1Nts == {"A", "G", "N"}
R2Nts == {"C", "N"}

NoCall == [kind |-> "none", gate |-> "none", merged |-> <<>>, nmuts |-> 0,
           compared |-> <<>>]

\* No call of lowQtoN is under way.
LowQIdle ==
    /\ lowq_r = <<>>
    /\ lowq_q = <<>>
    /\ lowq_minq = "+"
    /\ lowq_out = [kind |-> "none", str |-> <<>>]

\* No call of reverseComplement is under way.
RcIdle ==
    /\ rc_s = <<>>
    /\ rc_once = [kind |-> "none", str |-> <<>>]
    /\ rc_twice = [kind |-> "none", str |-> <<>>]

\* No table: the value of a variable before the call that sets it.
NoTable == [kind |-> "none", columns |-> <<>>, rows |-> <<>>]

\* No call of annotateCodonCounts is under way.
AnnotIdle ==
    /\ annot_counts = NoTable
    /\ annot_before = NoTable
    /\ annot_df = NoTable
    /\ annot_df2 = NoTable

\* No call of adjustErrorCounts is under way.
AdjustIdle ==
    /\ adj_errcounts = NoTable
    /\ adj_counts = NoTable
    /\ adj_maxexcess = 0
    /\ adj_out = NoTable

\* No call of renumberSites is under way.
RenumbIdle ==
    /\ renumb = <<>>
    /\ infiles = <<>>
    /\ missing = "error"
    /\ renumbered = [kind |-> "none", written |-> <<>>]

\* None of the read utilities or table functions is under way.
UtilIdle == LowQIdle /\ RcIdle /\ AnnotIdle /\ AdjustIdle /\ RenumbIdle

AlignInit ==
    /\ r1 \in StrUpTo(R1Nts, MaxReadLen)
    /\ r2 \in StrUpTo(R2Nts, MaxReadLen)
    /\ refseqstart \in 1..MaxRefStart
    /\ refseqend \in refseqstart..Len(refseq)
    /\ refseqend - refseqstart + 1 <= MaxSubLen
    /\ maxmuts \in 0..MaxMuts
    /\ maxN \in 0..MaxAmbig
    /\ chartype = "codon"
    /\ aligned = NoCall

\* The call alignSubamplicon(refseq, r1, r2, refseqstart, refseqend, maxmuts,
\* maxN, chartype).
AlignSubamplicon ==
    /\ aligned.kind = "none"
    /\ aligned' = alignSubamplicon(refseq, r1, r2, refseqstart, refseqend,
                                   maxmuts, maxN, chartype)
    /\ UNCHANGED <<r1, r2, refseqstart, refseqend, maxmuts, maxN, chartype>>
    /\ UNCHANGED <<countVars, workerVars, consensusVars, utilVars>>

AlignNext == AlignSubamplicon

\* No call of incrementCounts is under way.
CountIdle ==
    /\ subamplicons = <<>>
    /\ counts = <<>>
    /\ prevcounts = <<>>
    /\ applied = <<>>
    /\ err = "none"

\* No call of buildReadConsensus is under way.
ConsensusIdle ==
    /\ reads = <<>>
    /\ minreads = 0
    /\ minconcur = [num |-> 0, den |-> 1]
    /\ consensus = [kind |-> "none", consensus |-> <<>>, xmaxs |-> <<>>]

\* No workers are running.
WorkersIdle ==
    /\ assign = <<>>
    /\ wcounts = <<>>
    /\ wdone = {}
    /\ merged = <<>>

InitAlign ==
    AlignInit /\ CountIdle /\ WorkersIdle /\ ConsensusIdle /\ UtilIdle

SpecAlign == InitAlign /\ [][AlignNext]_vars

\* The coordinates are inconsistent with the reference.
BadCoordinates(rstart, rend) ==
    rstart < 1 \/ rend < rstart \/ rend > Len(refseq)

\* Calls of alignSubamplicon whose coordinates are inconsistent with the
\* reference: they reach up to MaxOutside positions outside it.
CoordInit ==
    /\ r1 \in StrUpTo(R1Nts, MaxBadReadLen)
    /\ r2 \in StrUpTo(R2Nts, MaxBadReadLen)
    /\ refseqstart \in (1 - MaxOutside)..(Len(refseq) + MaxOutside)
    /\ refseqend \in (1 - MaxOutside)..(Len(refseq) + MaxOutside)
    /\ BadCoordinates(refseqstart, refseqend)
    /\ maxmuts = MaxMuts
    /\ maxN = MaxAmbig
    /\ chartype = "codon"
    /\ aligned = NoCall

InitCoords ==
    CoordInit /\ CountIdle /\ WorkersIdle /\ ConsensusIdle /\ UtilIdle

SpecCoords == InitCoords /\ [][AlignNext]_vars

\* No call of alignSubamplicon is under way.
AlignIdle ==
    /\ r1 = <<>>
    /\ r2 = <<>>
    /\ refseqstart = 1
    /\ refseqend = 1
    /\ maxmuts = 0
    /\ maxN = 0
    /\ chartype = "codon"
    /\ aligned = NoCall

-----------------------------------------------------------------------------
(* Specification of the counter: the calls of a batch are made in any order
   on one table; an exception ends the run *)

\* Subamplicons the calls are drawn from: the start of the doctest's
\* subamplicon1; one with N in its first codon and one with N in its last;
\* the same codon twice; the doctest's subamplicon1 whole, which runs past
\* the last site when it starts at codon 2; one with a character that is no
\* nucleotide.
SubampliconPool == <<
    <<"A", "T", "G", "G", "A", "C", "T">>,
    <<"A", "N", "G", "G", "A", "C", "T">>,
    <<"G", "G", "T", "C", "T", "T", "N">>,
    <<"G", "A", "C", "G", "A", "C">>,
    <<"A", "T", "G", "G", "A", "C", "T", "T", "T", "C">>,
    <<"A", "T", "G", "R", "A", "C">> >>

\* Call n of the pool: each subamplicon at each refseqstart, and (n = 0) a
\* call with another chartype.
PoolSize == Len(SubampliconPool) * MaxRefStart

PoolCall(n) ==
    IF n = 0
    THEN [refseqstart |-> 1, subamplicon |-> <<"A", "T", "G">>,
          chartype |-> "aa"]
    ELSE [refseqstart |-> (n - 1) \div Len(SubampliconPool) + 1,
          subamplicon |-> SubampliconPool[((n - 1) % Len(SubampliconPool)) + 1],
          chartype |-> "codon"]

\* The batches: BatchSize calls of the pool, listed in the order of the pool
\* (the actions make the calls of a batch in every order).
Batches ==
    {[i \in 1..BatchSize |-> PoolCall(p[i])] :
        p \in {q \in [1..BatchSize -> 0..PoolSize] :
                 \A i \in 1..(BatchSize - 1) : q[i] <= q[i + 1]}}

\* Triples with at least one N.
AmbiguousCodons ==
    {c \in [1..3 -> NTS \cup {"N"}] : HasN(c)}

\* The all-zero table over the keys K.
ZeroCounts(K) == [c \in K |-> [s \in 1..codonlen |-> 0]]

\* Tables the caller starts from: keyed by CODONS as in the doctest, or by
\* every triple over the nucleotides and N.
InitialTables == {ZeroCounts(CODONS), ZeroCounts(CODONS \cup AmbiguousCodons)}

CountInit ==
    /\ subamplicons \in Batches
    /\ counts \in InitialTables
    /\ prevcounts = counts
    /\ applied = <<>>
    /\ err = "none"

Range(f) == {f[x] : x \in DOMAIN f}

\* The call incrementCounts(refseqstart, subamplicon, chartype, counts) for
\* call i of the batch.
IncrementCounts(i) ==
    /\ err = "none"
    /\ i \notin Range(applied)
    /\ LET c == subamplicons[i]
           res == incrementCounts(c.refseqstart, c.subamplicon, c.chartype,
                                  counts)
       IN  /\ counts' = res.counts
           /\ err' = res.err
    /\ prevcounts' = counts
    /\ applied' = Append(applied, i)
    /\ UNCHANGED subamplicons
    /\ UNCHANGED <<alignVars, workerVars, consensusVars, utilVars>>

CountNext == \E i \in 1..BatchSize : IncrementCounts(i)

InitCount ==
    CountInit /\ AlignIdle /\ WorkersIdle /\ ConsensusIdle /\ UtilIdle

SpecCount == InitCount /\ [][CountNext]_vars

-----------------------------------------------------------------------------
(* Specification of the workers: the calls of a batch are split among
   workers, each making its calls in order on a table of its own, the
   workers interleaved in any way; the tables are then added *)

\* The splits of the batch among at most NumWorkers workers (worker numbers
\* given in order of first use).
Splits ==
    {a \in [1..BatchSize -> 1..NumWorkers] :
        /\ a[1] = 1
        /\ \A i \in 2..BatchSize :
              \E j \in 1..(i - 1) : a[i] <= a[j] + 1}

WorkersInit ==
    /\ subamplicons \in Batches
    /\ counts = <<>>
    /\ prevcounts = <<>>
    /\ applied = <<>>
    /\ err = "none"
    /\ assign \in Splits
    /\ wcounts = [w \in 1..NumWorkers |-> ZeroCounts(CODONS)]
    /\ wdone = {}
    /\ merged = <<>>

\* Worker w makes the next call of its share; an exception ends the run.
WorkerIncrement(w) ==
    /\ err = "none"
    /\ merged = <<>>
    /\ \E i \in 1..BatchSize :
        /\ assign[i] = w
        /\ i \notin wdone
        /\ \A j \in 1..(i - 1) : assign[j] = w => j \in wdone
        /\ LET c == subamplicons[i]
               res == incrementCounts(c.refseqstart, c.subamplicon,
                                      c.chartype, wcounts[w])
           IN  /\ wcounts' = [wcounts EXCEPT ![w] = res.counts]
               /\ err' = res.err
        /\ wdone' = wdone \cup {i}
    /\ UNCHANGED <<subamplicons, counts, prevcounts, applied, assign, merged>>
    /\ UNCHANGED <<alignVars, consensusVars, utilVars>>

\* The element-wise sum of the tables of workers 1..n.
RECURSIVE sumTables(_, _)
sumTables(tables, n) ==
    IF n = 1 THEN tables[1]
    ELSE LET rest == sumTables(tables, n - 1)
         IN  [c \in DOMAIN rest |->
                [s \in 1..Len(rest[c]) |-> rest[c][s] + tables[n][c][s]]]

\* Every worker is done: the tables are added.
MergeTables ==
    /\ err = "none"
    /\ merged = <<>>
    /\ wdone = 1..BatchSize
    /\ merged' = sumTables(wcounts, NumWorkers)
    /\ UNCHANGED <<subamplicons, counts, prevcounts, applied, err, assign,
                   wcounts, wdone>>
    /\ UNCHANGED <<alignVars, consensusVars, utilVars>>

WorkersNext == (\E w \in 1..NumWorkers : WorkerIncrement(w)) \/ MergeTables

InitWorkers == WorkersInit /\ AlignIdle /\ ConsensusIdle /\ UtilIdle

SpecWorkers == InitWorkers /\ [][WorkersNext]_vars

-----------------------------------------------------------------------------
(* Specification of the consensus builder *)

\* Nucleotides the reads are drawn from.
ConsNts == {"A", "C", "N"}

\* Values of minconcur, as fractions (both are binary fractions, so the
\* float comparison of the code is the comparison of the fractions).
Concurrences == {[num |-> 1, den |-> 2], [num |-> 3, den |-> 4]}

NoConsensus == [kind |-> "none", consensus |-> <<>>, xmaxs |-> <<>>]

ConsensusInit ==
    /\ reads \in UNION {[1..n -> StrUpTo(ConsNts, MaxConsLen)] : n \in 1..MaxReads}
    /\ minreads \in 0..MaxMinReads
    /\ minconcur \in Concurrences
    /\ consensus = NoConsensus

\* The call buildReadConsensus(reads, minreads, minconcur).
BuildReadConsensus ==
    /\ consensus.kind = "none"
    /\ consensus' = buildReadConsensus(reads, minreads, minconcur)
    /\ UNCHANGED <<reads, minreads, minconcur>>
    /\ UNCHANGED <<alignVars, countVars, workerVars, utilVars>>

ConsensusNext == BuildReadConsensus

InitConsensus ==
    ConsensusInit /\ AlignIdle /\ CountIdle /\ WorkersIdle /\ UtilIdle

SpecConsensus == InitConsensus /\ [][ConsensusNext]_vars

\* Calls of buildReadConsensus on short reads, for the order of the reads.
OrderInit ==
    /\ reads \in UNION {[1..n -> StrUpTo(ConsNts, MaxOrderLen)] : n \in 1..MaxReads}
    /\ minreads \in 0..MaxMinReads
    /\ minconcur \in Concurrences
    /\ consensus = NoConsensus

InitOrder ==
    OrderInit /\ AlignIdle /\ CountIdle /\ WorkersIdle /\ UtilIdle

SpecOrder == InitOrder /\ [][ConsensusNext]_vars

-----------------------------------------------------------------------------
(* The quality mask: one call of lowQtoN *)

\* The nucleotides of the reads that are masked.
LowQNts == {"A", "T", "N"}

\* The aligner, the counter, the workers and the consensus builder are idle.
CoreIdle == AlignIdle /\ CountIdle /\ WorkersIdle /\ ConsensusIdle

LowQInit ==
    /\ lowq_r \in StrUpTo(LowQNts, MaxQualLen)
    /\ lowq_q \in StrUpTo(QualityChars, MaxQualLen)
    /\ lowq_minq \in QualityChars
    /\ lowq_out = [kind |-> "none", str |-> <<>>]

\* The call lowQtoN(r, q, minq, use_cutils=False).
LowQtoN ==
    /\ lowq_out.kind = "none"
    /\ lowq_out' = lowQtoN(lowq_r, lowq_q, lowq_minq)
    /\ UNCHANGED <<lowq_r, lowq_q, lowq_minq>>
    /\ UNCHANGED <<alignVars, countVars, workerVars, consensusVars>>
    /\ UNCHANGED <<rcVars, annotVars, adjustVars, renumbVars>>

LowQNext == LowQtoN

InitLowQ ==
    LowQInit /\ CoreIdle /\ RcIdle /\ AnnotIdle /\ AdjustIdle /\ RenumbIdle

SpecLowQ == InitLowQ /\ [][LowQNext]_vars

-----------------------------------------------------------------------------
(* The strand flip: reverseComplement, applied to a read and to its result *)

RcInit ==
    /\ rc_s \in StrUpTo(NTS \cup {"N"}, MaxRcLen)
    /\ rc_once = [kind |-> "none", str |-> <<>>]
    /\ rc_twice = [kind |-> "none", str |-> <<>>]

\* The call reverseComplement(s).
ReverseComplement ==
    /\ rc_once.kind = "none"
    /\ rc_once' = [kind |-> "str", str |-> reverseComplement(rc_s)]
    /\ UNCHANGED <<rc_s, rc_twice>>
    /\ UNCHANGED <<alignVars, countVars, workerVars, consensusVars>>
    /\ UNCHANGED <<lowqVars, annotVars, adjustVars, renumbVars>>

\* The call reverseComplement(reverseComplement(s)).
ReverseComplementAgain ==
    /\ rc_once.kind = "str"
    /\ rc_twice.kind = "none"
    /\ rc_twice' = [kind |-> "str", str |-> reverseComplement(rc_once.str)]
    /\ UNCHANGED <<rc_s, rc_once>>
    /\ UNCHANGED <<alignVars, countVars, workerVars, consensusVars>>
    /\ UNCHANGED <<lowqVars, annotVars, adjustVars, renumbVars>>

RcNext == ReverseComplement \/ ReverseComplementAgain

InitRc ==
    RcInit /\ CoreIdle /\ LowQIdle /\ AnnotIdle /\ AdjustIdle /\ RenumbIdle

SpecRc == InitRc /\ [][RcNext]_vars

-----------------------------------------------------------------------------
(* annotateCodonCounts *)

\* A pandas.DataFrame is [columns |-> the column labels in order, rows |->
\* the rows in order]; a row is [label |-> its index label, cells |-> a
\* function from the column labels to the values].  A float that results
\* from a division is the pair [num, den]; den = 0 stands for nan
\* (num = 0) and for inf (num # 0).

\* The nucleotides in the order of the genetic-code table.
CodeOrder == <<"T", "C", "A", "G">>

\* The standard genetic code, read along CodeOrder ('*' is a stop codon).
AminoAcids ==
    << "F", "F", "L", "L", "S", "S", "S", "S",
       "Y", "Y", "*", "*", "C", "C", "*", "W",
       "L", "L", "L", "L", "P", "P", "P", "P",
       "H", "H", "Q", "Q", "R", "R", "R", "R",
       "I", "I", "I", "M", "T", "T", "T", "T",
       "N", "N", "K", "K", "S", "S", "R", "R",
       "V", "V", "V", "V", "A", "A", "A", "A",
       "D", "D", "E", "E", "G", "G", "G", "G" >>

CodeRank(nt) == CHOOSE k \in 1..Len(CodeOrder) : CodeOrder[k] = nt

\* dms_tools2.CODON_TO_AA.
CODON_TO_AA ==
    [c \in CODONS |->
        AminoAcids[(CodeRank(c[1]) - 1) * 16 + (CodeRank(c[2]) - 1) * 4
                   + CodeRank(c[3])]]

\* The column label of a codon: the str 'ATG' of <<"A", "T", "G">>.
CodonName(c) == c[1] \o c[2] \o c[3]

CodonNames == {CodonName(c) : c \in CODONS}

\* The codon of a column label.
CodonOf == [n \in CodonNames |-> CHOOSE c \in CODONS : CodonName(c) = n]

\* NtChangeName with the two nucleotides in the other order.
NtChangeName_reversed(nt1, nt2) == nt2 \o "to" \o nt1

\* '{0}to{1}'.format(nt1, nt2).
NtChangeName(nt1, nt2) == nt1 \o "to" \o nt2

\* dms_tools2.NTS in its order.
NtsList == <<"A", "C", "G", "T">>

\* The pairs (nt1, nt2) of the comprehension of ntchanges.
NtPairs ==
    SelectSeq([i \in 1..(Len(NtsList) * Len(NtsList)) |->
                  <<NtsList[((i - 1) \div Len(NtsList)) + 1],
                    NtsList[((i - 1) % Len(NtsList)) + 1]>>],
              LAMBDA p : p[1] # p[2])

\* ntchanges: the labels of the twelve nucleotide changes.
ntchanges == [i \in 1..Len(NtPairs) |-> NtChangeName(NtPairs[i][1], NtPairs[i][2])]

RECURSIVE SumCells(_, _)
\* The sum of the cells of a row in the columns S.
SumCells(cells, S) ==
    IF S = {} THEN 0
    ELSE LET c == CHOOSE x \in S : TRUE
         IN  cells[c] + SumCells(cells, S \ {c})

\* The codon columns of a row that hold a count other than 0: the others
\* add nothing to a sum.
Counted(cells) == {n \in CodonNames : cells[n] # 0}

\* The columns n1nt, n2nt, n3nt.
NXntNames == [k \in 1..3 |-> CASE k = 1 -> "n1nt" [] k = 2 -> "n2nt"
                                [] OTHER -> "n3nt"]

codonTotal_withderived(cells) ==
    SumCells(cells, Counted(cells) \cup (DOMAIN cells \cap Range(NXntNames)))

\* df[dms_tools2.CODONS].sum(axis=1), for one row.
codonTotal(cells) == SumCells(cells, Counted(cells))

\* a / b.astype('float') on a column: division by zero gives nan or inf.
floatDiv(a, b) == IF b = 0
                  THEN [num |-> IF a > 0 THEN 1 ELSE IF a < 0 THEN -1 ELSE 0,
                        den |-> 0]
                  ELSE [num |-> a, den |-> b]

IsNan(x) == x.den = 0 /\ x.num = 0

fillna0_keep(x) == x

\* .fillna(0).
fillna0(x) == IF IsNan(x) THEN [num |-> 0, den |-> 1] ELSE x

skipWildtype_never(c, wt) == FALSE

\* if c == wt: continue
skipWildtype(c, wt) == c = wt

mutClass_synfirst(wt, c) ==
    LET aa == CODON_TO_AA[c]
    IN  IF aa = CODON_TO_AA[wt] THEN "nsyn"
        ELSE IF aa = "*" THEN "nstop"
        ELSE "nnonsyn"

\* The tally that the count of codon c joins at a site of wildtype wt.
mutClass(wt, c) ==
    LET aa == CODON_TO_AA[c]
    IN  IF aa = "*" THEN "nstop"
        ELSE IF aa = CODON_TO_AA[wt] THEN "nsyn"
        ELSE "nnonsyn"

\* ntdiffs: the nucleotide changes from wt to c, in order.
ntdiffs(wt, c) ==
    SelectSeq([k \in 1..3 |-> IF wt[k] # c[k] THEN NtChangeName(wt[k], c[k])
                                ELSE ""],
              LAMBDA d : d # "")

\* The values of the derived columns at one row: the loop over
\* dms_tools2.CODONS adds row[c] to the tallies of each codon c it visits.
derivedCells(cells) ==
    LET wt == CodonOf[cells["wildtype"]]
        ncounts == codonTotal(cells)
        visited == {n \in Counted(cells) : ~skipWildtype(CodonOf[n], wt)}
        tally(cls) ==
            SumCells(cells, {n \in visited : mutClass(wt, CodonOf[n]) = cls})
        nXnt(k) ==
            SumCells(cells, {n \in visited : Len(ntdiffs(wt, CodonOf[n])) = k})
        nntchange(name) ==
            SumCells(cells, {n \in visited : ntdiffs(wt, CodonOf[n]) = <<name>>})
    IN  [n \in {"ncounts", "mutfreq", "nstop", "nsyn", "nnonsyn",
                "mutfreq1nt", "mutfreq2nt", "mutfreq3nt"}
               \cup Range(NXntNames) \cup Range(ntchanges) |->
            CASE n = "ncounts" -> ncounts
              [] n = "mutfreq" ->
                    fillna0(floatDiv(ncounts - cells[cells["wildtype"]], ncounts))
              [] n \in {"nstop", "nsyn", "nnonsyn"} -> tally(n)
              [] n = "n1nt" -> nXnt(1)
              [] n = "n2nt" -> nXnt(2)
              [] n = "n3nt" -> nXnt(3)
              [] n = "mutfreq1nt" -> fillna0(floatDiv(nXnt(1), ncounts))
              [] n = "mutfreq2nt" -> fillna0(floatDiv(nXnt(2), ncounts))
              [] n = "mutfreq3nt" -> fillna0(floatDiv(nXnt(3), ncounts))
              [] OTHER -> nntchange(n)]

\* The derived columns in the order in which they are assigned.
DerivedCols ==
    <<"ncounts", "mutfreq", "nstop", "nsyn", "nnonsyn", "n1nt", "n2nt", "n3nt">>
        \o ntchanges \o <<"mutfreq1nt", "mutfreq2nt", "mutfreq3nt">>

\* df[name] = values, for the columns names: a column that exists keeps its
\* place and takes the new values, a new column is appended.
assignCols(df, names) ==
    [kind |-> "DataFrame",
     columns |-> df.columns
                   \o SelectSeq(names, LAMBDA n : n \notin Range(df.columns)),
     rows |-> [i \in 1..Len(df.rows) |->
                 LET cells == df.rows[i].cells
                     new == derivedCells(cells)
                 IN  [label |-> df.rows[i].label,
                      cells |-> [n \in DOMAIN cells \cup Range(names) |->
                                    IF n \in Range(names) THEN new[n]
                                    ELSE cells[n]]]]]

dfIsCopy_alias == FALSE

\* df = counts.copy(): df is a new object.
dfIsCopy == TRUE

\* The caller's table when the call returns: the assignments to 'ncounts'
\* and 'mutfreq' are made on df itself, the later ones on new frames
\* (df = df.assign(...)).
countsAfterCall(tbl) ==
    IF dfIsCopy \/ tbl.kind # "DataFrame" THEN tbl
    ELSE assignCols(tbl, <<"ncounts", "mutfreq">>)

\* annotateCodonCounts(counts), for counts that is not a str.
annotateCodonCounts(tbl) ==
    IF tbl.kind # "DataFrame"
    THEN [kind |-> "ValueError", columns |-> <<>>, rows |-> <<>>]
    ELSE IF ~(CodonNames \subseteq Range(tbl.columns))
    THEN [kind |-> "AssertionError", columns |-> <<>>, rows |-> <<>>]
    ELSE IF \E i \in 1..Len(tbl.rows) :
                tbl.rows[i].cells["wildtype"] \notin CodonNames
    THEN [kind |-> "KeyError", columns |-> <<>>, rows |-> <<>>]
    ELSE assignCols(tbl, DerivedCols)

-----------------------------------------------------------------------------
(* The annotation of a codon count table: annotateCodonCounts, called on a *)
(* table and then on the table it returned                                 *)

\* The sites of the doctest's table.
DoctestSites == <<1, 2>>

\* The codons that are counted in the doctest's table.
CountedCodons == {"ATG", "GGG", "GGA", "TGA"}

\* The wildtype codons of the two sites: those of the doctest, and a stop
\* codon at the first site.
SiteWildtypes == <<{"ATG", "TGA"}, {"GGG"}>>

\* The codons that are counted at each site: at the first site a second
\* stop codon in the place of GGA.
SiteCodons == <<(CountedCodons \ {"GGA"}) \cup {"TAA"}, CountedCodons>>

\* The codon columns in the order of dms_tools2.CODONS.
CodonCols ==
    [i \in 1..(Len(NtsList) * Len(NtsList) * Len(NtsList)) |->
        NtsList[((i - 1) \div (Len(NtsList) * Len(NtsList))) + 1]
          \o NtsList[(((i - 1) \div Len(NtsList)) % Len(NtsList)) + 1]
          \o NtsList[((i - 1) % Len(NtsList)) + 1]]

\* pandas.DataFrame(d) of the doctest: rs[i] gives the wildtype and the
\* counts of row i, every other codon has count 0.
CountTable(rs) ==
    [kind |-> "DataFrame",
     columns |-> <<"site", "wildtype">> \o CodonCols,
     rows |-> [i \in DOMAIN rs |->
                 [label |-> i - 1,
                  cells |-> [n \in {"site", "wildtype"} \cup CodonNames |->
                                CASE n = "site" -> DoctestSites[i]
                                  [] n = "wildtype" -> rs[i].wildtype
                                  [] n \in DOMAIN rs[i].cnt -> rs[i].cnt[n]
                                  [] OTHER -> 0]]]]

\* The rows that the table may hold at site i.
CountRows(i) ==
    [wildtype : SiteWildtypes[i], cnt : [SiteCodons[i] -> 0..MaxCodonCount]]

CountTables == {CountTable(<<a, b>>) : a \in CountRows(1), b \in CountRows(2)}

\* An argument that is neither a str nor a DataFrame.
NotATable == [kind |-> "other", columns |-> <<>>, rows |-> <<>>]

AnnotInit ==
    /\ annot_counts \in CountTables \cup {NotATable}
    /\ annot_before = annot_counts
    /\ annot_df = NoTable
    /\ annot_df2 = NoTable

\* The call df = annotateCodonCounts(counts).
AnnotateCodonCounts ==
    /\ annot_df.kind = "none"
    /\ annot_df' = annotateCodonCounts(annot_counts)
    /\ annot_counts' = countsAfterCall(annot_counts)
    /\ UNCHANGED <<annot_before, annot_df2>>
    /\ UNCHANGED <<alignVars, countVars, workerVars, consensusVars>>
    /\ UNCHANGED <<lowqVars, rcVars, adjustVars, renumbVars>>

\* The call df2 = annotateCodonCounts(df).
AnnotateAgain ==
    /\ annot_df.kind = "DataFrame"
    /\ annot_df2.kind = "none"
    /\ annot_df2' = annotateCodonCounts(annot_df)
    /\ annot_df' = countsAfterCall(annot_df)
    /\ UNCHANGED <<annot_before, annot_counts>>
    /\ UNCHANGED <<alignVars, countVars, workerVars, consensusVars>>
    /\ UNCHANGED <<lowqVars, rcVars, adjustVars, renumbVars>>

AnnotNext == AnnotateCodonCounts \/ AnnotateAgain

InitAnnot ==
    AnnotInit /\ CoreIdle /\ LowQIdle /\ RcIdle /\ AdjustIdle /\ RenumbIdle

SpecAnnot == InitAnnot /\ [][AnnotNext]_vars

-----------------------------------------------------------------------------
(* adjustErrorCounts *)

\* The column 'site' of a table, and its index labels, in row order.
SiteColumn(df) == [i \in 1..Len(df.rows) |-> df.rows[i].cells["site"]]

IndexOf(df) == [i \in 1..Len(df.rows) |-> df.rows[i].label]

RECURSIVE sortRows(_)
\* The rows in increasing order of 'site'.
sortRows(rows) ==
    IF rows = <<>> THEN <<>>
    ELSE LET m == CHOOSE i \in 1..Len(rows) :
                    /\ \A j \in 1..Len(rows) :
                          rows[i].cells["site"] <= rows[j].cells["site"]
                    /\ \A j \in 1..(i - 1) :
                          rows[j].cells["site"] # rows[i].cells["site"]
         IN  <<rows[m]>> \o sortRows(SubSeq(rows, 1, m - 1)
                                       \o SubSeq(rows, m + 1, Len(rows)))

\* df.sort_values('site'): a new table, each row keeps its index label.
sort_values(df) == [df EXCEPT !.rows = sortRows(df.rows)]

\* a[col] == b[col] on two tables: "ValueError" when the two indexes are
\* not the same labels in the same order, else whether all values agree.
columnsAgree(a, b, col) ==
    IF IndexOf(a) # IndexOf(b) THEN "ValueError"
    ELSE IF \A i \in 1..Len(a.rows) : a.rows[i].cells[col] = b.rows[i].cells[col]
    THEN "True"
    ELSE "False"

wildtypesAgree_unchecked(a, b) == "True"

\* all(counts['wildtype'] == errcounts['wildtype']).
wildtypesAgree(a, b) == columnsAgree(a, b, "wildtype")

\* df[charlist].sum(axis=1), for one row.
total(cells, charlist) == SumCells(cells, Range(charlist))

pyRound_floor(n, d) == n \div d

\* round() of the ratio n / d, d > 0: to the nearest integer, a half to the
\* even one.
pyRound(n, d) ==
    LET q == n \div d
        r == n % d
    IN  IF 2 * r < d THEN q
        ELSE IF 2 * r > d THEN q + 1
        ELSE IF q % 2 = 0 THEN q ELSE q + 1

\* maxallowed for character c at one row; "nan" when the sample total is 0.
maxallowed(ccells, ecells, charlist, maxexcess, c) ==
    LET ctotal == total(ccells, charlist)
        etotal == total(ecells, charlist)
    IN  IF ctotal = 0 THEN "nan"
        ELSE pyRound(ccells[c] * etotal + maxexcess * ctotal, ctotal)

keepWildtype_never(ccells, c) == FALSE

\* counts['wildtype'] != c is false at the row.
keepWildtype(ccells, c) == ccells["wildtype"] = c

\* adjusted with the larger of the two counts.
adjusted_larger(ccells, ecells, charlist, maxexcess, c) ==
    LET allowed == maxallowed(ccells, ecells, charlist, maxexcess, c)
    IN  IF keepWildtype(ccells, c) THEN ecells[c]
        ELSE IF ecells[c] < allowed THEN allowed
        ELSE ecells[c]

\* The adjusted count of character c at one row.
adjusted(ccells, ecells, charlist, maxexcess, c) ==
    LET allowed == maxallowed(ccells, ecells, charlist, maxexcess, c)
    IN  IF keepWildtype(ccells, c) THEN ecells[c]
        ELSE IF ecells[c] < allowed THEN ecells[c]
        ELSE allowed

\* counts['total'] = ...: the sorted sample table with its column 'total'.
withTotal(ccells, charlist) ==
    [n \in DOMAIN ccells \cup {"total"} |->
        IF n = "total" THEN total(ccells, charlist) ELSE ccells[n]]

\* adjustErrorCounts(errcounts, counts, charlist, maxexcess).
adjustErrorCounts(errtbl, tbl, charlist, maxexcess) ==
    LET cols == tbl.columns
        cs == sort_values(tbl)
        es == sort_values(errtbl)
        failed(k) == [kind |-> k, columns |-> <<>>, rows |-> <<>>]
        sitesAgree == columnsAgree(cs, es, "site")
    IN  IF sitesAgree = "ValueError" THEN failed("ValueError")
        ELSE IF sitesAgree = "False" THEN failed("AssertionError")
        ELSE IF wildtypesAgree(cs, es) = "False" THEN failed("AssertionError")
        ELSE IF \E i \in 1..Len(cs.rows) : total(cs.rows[i].cells, charlist) = 0
        THEN failed("ValueError")
        ELSE [kind |-> "DataFrame",
              columns |-> cols,
              rows |-> [i \in 1..Len(es.rows) |->
                  LET ccells == withTotal(cs.rows[i].cells, charlist)
                      ecells == es.rows[i].cells
                  IN  [label |-> es.rows[i].label,
                       cells |-> [n \in Range(cols) |->
                           IF n \in Range(charlist)
                           THEN adjusted(ccells, ecells, charlist, maxexcess, n)
                           ELSE ccells[n]]]]]

-----------------------------------------------------------------------------
(* The error adjustment: one call of adjustErrorCounts *)

\* charlist: three of the characters of the doctest.
Charlist == <<"A", "C", "G">>

\* The counts of the doctest at its site, and those of a second site whose
\* wildtype is another character.
DoctestRow == [wildtype |-> "A",
               sample |-> [A |-> 500, C |-> 10, G |-> 40],
               error |-> [A |-> 250, C |-> 1, G |-> 30]]

SecondRow == [wildtype |-> "C",
              sample |-> [A |-> 30, C |-> 300, G |-> 6],
              error |-> [A |-> 20, C |-> 100, G |-> 5]]

\* pandas.DataFrame of the given sites, wildtypes and counts, with the
\* columns site, wildtype, the characters and, if extra, a column
\* 'ncounts' that holds the sum of the counts.
CharTable(sites, wts, cnts, extra) ==
    LET columns == <<"site", "wildtype">> \o Charlist
                     \o (IF extra THEN <<"ncounts">> ELSE <<>>)
    IN  [kind |-> "DataFrame",
         columns |-> columns,
         rows |-> [i \in 1..Len(sites) |->
                     [label |-> i - 1,
                      cells |-> [n \in Range(columns) |->
                          CASE n = "site" -> sites[i]
                            [] n = "wildtype" -> wts[i]
                            [] n = "ncounts" -> SumCells(cnts[i], Range(Charlist))
                            [] OTHER -> cnts[i][n]]]]]

\* Pairs <<errcounts, counts>> that agree on sites and wildtypes: any counts
\* at site 1, the doctest's at site 2.
ValuePairs ==
    {<<CharTable(<<1, 2>>, <<w, DoctestRow.wildtype>>, <<e, DoctestRow.error>>,
                 FALSE),
       CharTable(<<1, 2>>, <<w, DoctestRow.wildtype>>, <<s, DoctestRow.sample>>,
                 FALSE)>> :
        w \in {"A", "C"},
        e \in [Range(Charlist) -> 0..MaxCharCount],
        s \in [Range(Charlist) -> 0..MaxCharCount]}

RowAt(site) == IF site = 1 THEN DoctestRow ELSE SecondRow

\* Pairs <<errcounts, counts>> of fixed counts whose sites, row order,
\* wildtype at site 1 and extra column vary.
ShapePairs ==
    {<<CharTable(es, [i \in 1..Len(es) |->
                        IF es[i] = 1 THEN ew ELSE RowAt(es[i]).wildtype],
                 [i \in 1..Len(es) |-> RowAt(es[i]).error], xe),
       CharTable(ss, [i \in 1..Len(ss) |-> RowAt(ss[i]).wildtype],
                 [i \in 1..Len(ss) |-> RowAt(ss[i]).sample], xs)>> :
        es \in {<<1, 2>>, <<2, 1>>, <<1>>, <<1, 3>>},
        ss \in {<<1, 2>>, <<2, 1>>, <<1>>},
        ew \in {"A", "C"},
        xe \in BOOLEAN, xs \in BOOLEAN}

AdjustInit ==
    /\ \E p \in ValuePairs \cup ShapePairs :
          /\ adj_errcounts = p[1]
          /\ adj_counts = p[2]
    /\ adj_maxexcess \in 0..MaxExcess
    /\ adj_out = NoTable

\* The call adjustErrorCounts(errcounts, counts, charlist, maxexcess).
AdjustErrorCounts ==
    /\ adj_out.kind = "none"
    /\ adj_out' = adjustErrorCounts(adj_errcounts, adj_counts, Charlist,
                                    adj_maxexcess)
    /\ UNCHANGED <<adj_errcounts, adj_counts, adj_maxexcess>>
    /\ UNCHANGED <<alignVars, countVars, workerVars, consensusVars>>
    /\ UNCHANGED <<lowqVars, rcVars, annotVars, renumbVars>>

AdjustNext == AdjustErrorCounts

InitAdjust ==
    AdjustInit /\ CoreIdle /\ LowQIdle /\ RcIdle /\ AnnotIdle /\ RenumbIdle

SpecAdjust == InitAdjust /\ [][AdjustNext]_vars

-----------------------------------------------------------------------------
(* The pipeline of one read pair: alignSubamplicon, and when it returns a
   subamplicon, incrementCounts on the all-zero table *)

\* The keys of the table: the reference codons and every codon over the
\* nucleotides that r1 and the reverse complement of r2 can hold.
PipelineCodons ==
    {c \in CODONS :
        \/ \E k \in 1..codonlen : c = PySlice(refseq, 3 * k - 3, 3 * k)
        \/ \A j \in 1..3 : c[j] \in R1Nts \cup {NTCOMPLEMENT[x] : x \in R2Nts}}

\* maxN is the largest threshold: every subamplicon that a smaller maxN
\* accepts is accepted.
PipelineInit ==
    /\ AlignInit
    /\ maxN = MaxAmbig
    /\ subamplicons = <<>>
    /\ counts = ZeroCounts(PipelineCodons)
    /\ prevcounts = counts
    /\ applied = <<>>
    /\ err = "none"

\* The call incrementCounts(refseqstart, subamplicon, chartype, counts) with
\* the subamplicon that alignSubamplicon returned.
CountAligned ==
    /\ aligned.kind = "str"
    /\ applied = <<>>
    /\ LET res == incrementCounts(refseqstart, aligned.merged, chartype, counts)
       IN  /\ counts' = res.counts
           /\ err' = res.err
    /\ prevcounts' = counts
    /\ subamplicons' = <<[refseqstart |-> refseqstart,
                          subamplicon |-> aligned.merged,
                          chartype |-> chartype]>>
    /\ applied' = <<1>>
    /\ UNCHANGED <<alignVars, workerVars, consensusVars, utilVars>>

PipelineNext == AlignSubamplicon \/ CountAligned

InitPipeline == PipelineInit /\ WorkersIdle /\ ConsensusIdle /\ UtilIdle

SpecPipeline == InitPipeline /\ [][PipelineNext]_vars

-----------------------------------------------------------------------------
(* renumberSites *)

\* The column 'original' and the column 'new' of the renumbering scheme, a
\* sequence of records [original, new] of str.
OriginalSites(scheme) == {scheme[k].original : k \in 1..Len(scheme)}

\* set(df_in['site']) > set(renumb['original']): a proper superset.
excessSites(sites, scheme) ==
    OriginalSites(scheme) \subseteq Range(sites)
        /\ Range(sites) # OriginalSites(scheme)

\* df_in['site'].map(replacemap), for one site: the new number of a site
\* of the scheme, the site itself otherwise.
replacemap(site, scheme) ==
    IF site \in OriginalSites(scheme)
    THEN (CHOOSE e \in Range(scheme) : e.original = site).new
    ELSE site

\* The site column written for one input file that passes the test on
\* missing.
renumberFile(sites, scheme, mode) ==
    LET kept == IF mode = "drop"
                THEN SelectSeq(sites, LAMBDA s : s \in OriginalSites(scheme))
                ELSE sites
        mapped == [k \in 1..Len(kept) |-> replacemap(kept[k], scheme)]
    IN  SelectSeq(mapped, LAMBDA s : s \notin {"NaN", "nan", "None"})

RECURSIVE renumberLoop(_, _, _, _, _)
\* The loop over the input files: written[k] is the site column of output
\* file k, or <<"unwritten">> for a file that has not been written.
renumberLoop(files, scheme, mode, k, written) ==
    IF k > Len(files) THEN [kind |-> "None", written |-> written]
    ELSE IF mode = "error" /\ excessSites(files[k], scheme)
    THEN [kind |-> "ValueError", written |-> written]
    ELSE IF mode \notin {"error", "skip", "drop"}
    THEN [kind |-> "ValueError", written |-> written]
    ELSE renumberLoop(files, scheme, mode, k + 1,
                      [written EXCEPT ![k] = renumberFile(files[k], scheme, mode)])

\* renumberSites(renumbfile, infiles, missing, outfiles=...), for a scheme
\* and files that pass the asserts of lines 847-894.
renumberSites(scheme, files, mode) ==
    renumberLoop(files, scheme, mode, 1, [k \in 1..Len(files) |-> <<"unwritten">>])

-----------------------------------------------------------------------------
(* The renumbering: one call of renumberSites on two input files *)

\* The sites of the input files.
FileSites == {"1", "2", "3"}

\* Renumbering schemes: none, one, two or all of the sites, one of them
\* with 'nan' as new number.
RenumbSchemes ==
    { <<>>,
      <<[original |-> "1", new |-> "7"]>>,
      <<[original |-> "1", new |-> "7"], [original |-> "2", new |-> "8"]>>,
      <<[original |-> "1", new |-> "nan"], [original |-> "2", new |-> "8"]>>,
      <<[original |-> "1", new |-> "7"], [original |-> "2", new |-> "8"],
        [original |-> "3", new |-> "9"]>> }

RenumbInit ==
    /\ renumb \in RenumbSchemes
    /\ infiles \in {<<a, b>> : a \in StrUpTo(FileSites, MaxRows),
                                b \in StrUpTo(FileSites, MaxRows)}
    /\ missing \in {"error", "skip", "drop", "other"}
    /\ renumbered = [kind |-> "none", written |-> <<>>]

\* The call renumberSites(renumbfile, infiles, missing, outfiles=outfiles).
RenumberSites ==
    /\ renumbered.kind = "none"
    /\ renumbered' = renumberSites(renumb, infiles, missing)
    /\ UNCHANGED <<renumb, infiles, missing>>
    /\ UNCHANGED <<alignVars, countVars, workerVars, consensusVars>>
    /\ UNCHANGED <<lowqVars, rcVars, annotVars, adjustVars>>

RenumbNext == RenumberSites

InitRenumb ==
    RenumbInit /\ CoreIdle /\ LowQIdle /\ RcIdle /\ AnnotIdle /\ AdjustIdle

SpecRenumb == InitRenumb /\ [][RenumbNext]_vars

-----------------------------------------------------------------------------
(* Properties of the aligner *)

Called == aligned.kind # "none"

SubLen == refseqend - refseqstart + 1

\* Character j (0-based) of the reverse complement of r2, read off r2 itself.
R2Char(j) == NTCOMPLEMENT[r2[Len(r2) - j]]

InR1(i) == i < Len(r1)
InR2(i) == i >= SubLen - Len(r2)

\* The character the merge rules give to position i (0-based).
MergeRule(i) ==
    LET a == r1[i + 1]
        b == R2Char(i - (SubLen - Len(r2)))
    IN  CASE ~InR2(i) /\ InR1(i) -> a
          [] ~InR2(i) /\ ~InR1(i) -> "N"
          [] InR2(i) /\ ~InR1(i) -> b
          [] OTHER -> IF a = b THEN a
                      ELSE IF "N" \in {a, b} THEN CHOOSE c \in {a, b} : c # "N"
                      ELSE "N"

MergedByRule == [j \in 1..SubLen |-> MergeRule(j - 1)]

\* Reference codons whose three nucleotides lie within [refseqstart, refseqend].
CoveredCodons ==
    {k \in 1..(Len(refseq) \div 3) : 3 * k - 2 >= refseqstart /\ 3 * k <= refseqend}

RefCodon(k) == <<refseq[3 * k - 2], refseq[3 * k - 1], refseq[3 * k]>>

\* The characters of sequence s that align to reference codon k.
SubCodon(s, k) == [j \in 1..3 |-> s[3 * k - 3 + j - refseqstart + 1]]

\* Covered codons of s without an N that differ from the reference.
MutatedCodons(s) ==
    {k \in CoveredCodons : ~HasN(SubCodon(s, k)) /\ SubCodon(s, k) # RefCodon(k)}

\* C1: alignSubamplicon rejects a pair exactly when the merged sequence has
\* more than maxN characters N or more than maxmuts covered N-free codons
\* that differ from the reference; otherwise it returns the merged sequence.
C1_RejectIff ==
    Called =>
        LET reject == \/ CountN(MergedByRule) > maxN
                      \/ Cardinality(MutatedCodons(MergedByRule)) > maxmuts
        IN  /\ (aligned.kind = "False") <=> reject
            /\ ~reject => (aligned.kind = "str" /\ aligned.merged = MergedByRule)

\* An accepted pair with one N and one mutated codon, both at the thresholds.
C1_Witness ==
    /\ aligned.kind = "str"
    /\ CountN(aligned.merged) = 1 /\ maxN = 1
    /\ Cardinality(MutatedCodons(aligned.merged)) = 1 /\ maxmuts = 1
    /\ Cardinality(CoveredCodons) = 2

\* C2: the merged sequence has length refseqend - refseqstart + 1 and each
\* position follows the merge rules (only r1, only r2, overlap), whatever the
\* lengths of r1 and r2.
C2_MergeRule ==
    Called =>
        /\ Len(aligned.merged) = SubLen
        /\ \A i \in 0..(SubLen - 1) : aligned.merged[i + 1] = MergeRule(i)

\* r2 longer than the subamplicon, and an overlap position where the reads
\* are both called and differ.
C2_Witness ==
    /\ Called
    /\ Len(r2) > SubLen
    /\ \E i \in 0..(SubLen - 1) :
        /\ InR1(i) /\ InR2(i)
        /\ r1[i + 1] # "N" /\ R2Char(i - (SubLen - Len(r2))) # "N"
        /\ r1[i + 1] # R2Char(i - (SubLen - Len(r2)))
        /\ aligned.merged[i + 1] = "N"

ComparedCodons == {aligned.compared[n].icodon : n \in 1..Len(aligned.compared)}

\* C3: in every phase of refseqstart the mutation gate compares the covered
\* codons, each at offsets 3k-2-refseqstart .. 3k-refseqstart, in increasing
\* order, until it returns (it stops at the codon whose mutation takes the
\* count over maxmuts); a codon with an N is never counted, and a partly
\* covered codon is never compared.
C3_GateCodons ==
    (Called /\ aligned.gate # "maxN") =>
        /\ \A n \in 1..Len(aligned.compared) :
              /\ aligned.compared[n].icodon \in CoveredCodons
              /\ aligned.compared[n].offset =
                    3 * aligned.compared[n].icodon - 2 - refseqstart
              /\ n > 1 => aligned.compared[n].icodon =
                            aligned.compared[n - 1].icodon + 1
        /\ ComparedCodons =
              {k \in CoveredCodons :
                  Cardinality({j \in MutatedCodons(aligned.merged) : j < k})
                      <= maxmuts}
        /\ aligned.nmuts =
              Cardinality(MutatedCodons(aligned.merged) \cap ComparedCodons)
        /\ aligned.kind = "str" => ComparedCodons = CoveredCodons

\* Phase 2 (codonshift 2): a leading and a trailing partial codon, and the one
\* covered codon compared and found mutated.
C3_Witness ==
    /\ aligned.kind = "str"
    /\ refseqstart % 3 = 2 /\ refseqend % 3 = 1
    /\ Len(aligned.compared) = 1
    /\ aligned.compared[1].offset = 2
    /\ aligned.nmuts = 1

-----------------------------------------------------------------------------
(* Properties of the counter *)

\* The last call made, and whether it returned.
LastCall == subamplicons[applied[Len(applied)]]

Returned == Len(applied) > 0 /\ err = "none"

\* 1-based position in the call's subamplicon of nucleotide j of the codon
\* of site s.
SitePos(call, s, j) == (3 * s - 3 + j) - call.refseqstart + 1

\* The codon of site s as the call's subamplicon holds it; <<>> when the
\* subamplicon does not hold the whole codon.
Observed(call, s) ==
    IF SitePos(call, s, 1) >= 1 /\ SitePos(call, s, 3) <= Len(call.subamplicon)
    THEN [j \in 1..3 |-> call.subamplicon[SitePos(call, s, j)]]
    ELSE <<>>

\* C4: a call that returns adds exactly 1 to the entry (codon, site) of each
\* complete codon without N of the subamplicon, at the site the characters
\* align to, and leaves every other entry as it was.
C4_IncrementExact ==
    Returned =>
        /\ DOMAIN counts = DOMAIN prevcounts
        /\ \A s \in 1..codonlen :
              LET seen == Observed(LastCall, s)
                  counted == seen # <<>> /\ ~HasN(seen)
              IN  \A c \in DOMAIN counts :
                    counts[c][s] = prevcounts[c][s]
                        + (IF counted /\ c = seen THEN 1 ELSE 0)

\* Second call of a run, in phase 0: the leading G is dropped, GTC is counted
\* at site 2 and TTN is skipped.
C4_Witness ==
    /\ Returned
    /\ Len(applied) = 2
    /\ LastCall.refseqstart = 3
    /\ LastCall.subamplicon = <<"G", "G", "T", "C", "T", "T", "N">>
    /\ \E c \in DOMAIN prevcounts : prevcounts[c][2] > 0
    /\ counts[<<"G", "T", "C">>][2] = prevcounts[<<"G", "T", "C">>][2] + 1

\* The table after calls 1..n of the batch are made in that order on the
\* all-zero table over the keys K.
RECURSIVE InOrder(_, _)
InOrder(n, K) ==
    IF n = 0 THEN ZeroCounts(K)
    ELSE incrementCounts(subamplicons[n].refseqstart,
                         subamplicons[n].subamplicon,
                         subamplicons[n].chartype, InOrder(n - 1, K)).counts

\* C5: whatever the order in which the calls of a batch were made, the final
\* table is the one the calls give in the order of the batch.
C5_OrderIndependent ==
    (Len(applied) = BatchSize /\ err = "none") => counts = InOrder(BatchSize, DOMAIN counts)

\* The batch applied in reverse, with two different codons counted at site 1.
C5_Witness ==
    /\ err = "none"
    /\ applied = <<2, 1>>
    /\ \E c, e \in DOMAIN counts :
          c # e /\ counts[c][1] = 1 /\ counts[e][1] = 1

\* C6: every entry is non-negative and not below its value before the last
\* call (also when the call raised), and no key with an N holds a count.
C6_Monotone ==
    /\ DOMAIN counts = DOMAIN prevcounts
    /\ \A c \in DOMAIN counts :
          LET row == counts[c]
              ambiguous == HasN(c)
          IN  \A s \in 1..Len(row) :
                /\ row[s] >= 0
                /\ row[s] >= prevcounts[c][s]
                /\ ambiguous => row[s] = 0

\* A table that has keys with N, after a call whose subamplicon has a codon
\* with N next to a counted one.
C6_Witness ==
    /\ Returned
    /\ <<"A", "N", "G">> \in DOMAIN counts
    /\ LastCall.subamplicon = <<"A", "N", "G", "G", "A", "C", "T">>
    /\ LastCall.refseqstart = 1
    /\ counts[<<"G", "A", "C">>][2] > prevcounts[<<"G", "A", "C">>][2]

\* C25: a call of incrementCounts with a chartype other than 'codon' raises
\* an error and leaves every entry of the table as it was.
C25_InvalidChartype ==
    (Len(applied) > 0 /\ LastCall.chartype # "codon") =>
        /\ err = "ValueError"
        /\ DOMAIN counts = DOMAIN prevcounts
        /\ \A c \in DOMAIN counts :
              \A s \in 1..Len(counts[c]) : counts[c][s] = prevcounts[c][s]

\* A call with chartype 'aa' made on a table that already holds a count.
C25_Witness ==
    /\ Len(applied) = 2
    /\ LastCall.chartype = "aa"
    /\ err = "ValueError"
    /\ \E c \in DOMAIN prevcounts : \E s \in 1..codonlen : prevcounts[c][s] > 0

\* C30: a call of incrementCounts that fails part-way, at a site beyond the
\* lists of the table or at a codon that is no key, leaves the table as it
\* was before the call.
C30_AllOrNothing ==
    (Len(applied) > 0 /\ err \in {"IndexError", "KeyError"}) =>
        counts = prevcounts

-----------------------------------------------------------------------------
(* Properties of the workers *)

\* C7: the sum of the workers' tables is the table that the calls of the
\* whole batch give when made one after the other on one all-zero table.
C7_SplitAndSum ==
    merged # <<>> => merged = InOrder(BatchSize, CODONS)

\* Two workers with one call each, both counting at site 2, and summed.
C7_Witness ==
    /\ merged # <<>>
    /\ assign[1] # assign[2]
    /\ \E c \in CODONS : wcounts[1][c][2] = 1
    /\ \E c \in CODONS : wcounts[2][c][2] = 1
    /\ \E c \in CODONS : merged[c][2] = 2

-----------------------------------------------------------------------------
(* Properties of the consensus builder *)

ConsensusCalled == consensus.kind # "none"

\* The longest read's length.
LongestRead ==
    CHOOSE m \in 0..MaxConsLen :
        /\ \E k \in 1..Len(reads) : Len(reads[k]) = m
        /\ \A k \in 1..Len(reads) : Len(reads[k]) <= m

\* Reads that reach position i (0-based) and show x there.
Showing(i, x) == {k \in 1..Len(reads) : Len(reads[k]) > i /\ reads[k][i + 1] = x}

Tally(i, x) == Cardinality(Showing(i, x))

Total(i) == Tally(i, "A") + Tally(i, "C") + Tally(i, "G") + Tally(i, "T")

\* The called characters with the greatest tally at position i (none when no
\* read shows a called character there).
Leaders(i) ==
    {x \in NTS : Tally(i, x) > 0 /\ \A y \in NTS : Tally(i, y) <= Tally(i, x)}

\* The characters the position rule allows at position i.
Emittable(i) ==
    IF Total(i) < minreads THEN {"N"}
    ELSE IF \E x \in Leaders(i) : Tally(i, x) * minconcur.den >= minconcur.num * Total(i)
    THEN Leaders(i)
    ELSE {"N"}

\* C8: the call returns a string in which every position is decided from its
\* own column: N if fewer than minreads reads are called there, otherwise a
\* character of greatest tally if its share of the called reads is at least
\* minconcur, otherwise N; a read too short for the position is not tallied.
C8_PositionRule ==
    ConsensusCalled =>
        /\ consensus.kind = "str"
        /\ Len(consensus.consensus) = LongestRead
        /\ \A i \in 0..(LongestRead - 1) :
              consensus.consensus[i + 1] \in Emittable(i)

\* The position rule on the calls that return a string.
PositionRuleWhenReturned ==
    consensus.kind = "str" =>
        /\ Len(consensus.consensus) = LongestRead
        /\ \A i \in 0..(LongestRead - 1) :
              consensus.consensus[i + 1] \in Emittable(i)

\* C9: where the call picked a candidate character, it is the greatest, in
\* the order of the characters, of those tied for the greatest tally.
C9_TieBreak ==
    \A n \in 1..Len(consensus.xmaxs) :
        consensus.xmaxs[n] # "" =>
            /\ consensus.xmaxs[n] \in Leaders(n - 1)
            /\ \A y \in Leaders(n - 1) : ord[y] <= ord[consensus.xmaxs[n]]

\* A and C tied one to one at the first position with minconcur 1/2: C is
\* the candidate and is emitted.
C9_Witness ==
    /\ consensus.kind = "str"
    /\ Len(consensus.xmaxs) >= 1
    /\ Tally(0, "A") = 1 /\ Tally(0, "C") = 1
    /\ minconcur = [num |-> 1, den |-> 2]
    /\ consensus.xmaxs[1] = "C"
    /\ consensus.consensus[1] = "C"

\* C10: the call returns a string as long as the longest read, whatever
\* minreads and minconcur are.
C10_Length ==
    ConsensusCalled =>
        /\ consensus.kind = "str"
        /\ Len(consensus.consensus) = LongestRead

\* The reads in the order given by the permutation p of their indexes.
Reordered(p) == [k \in 1..Len(reads) |-> reads[p[k]]]

\* C29: the value of buildReadConsensus does not depend on the order of
\* the reads: the call on the reads in any other order returns the same
\* string, or raises the same exception, also where characters are tied for
\* the greatest count.
C29_OrderOfReads ==
    ConsensusCalled =>
        \A p \in Permutations(1..Len(reads)) :
            LET other == buildReadConsensus(Reordered(p), minreads, minconcur)
            IN  /\ other.kind = consensus.kind
                /\ other.consensus = consensus.consensus

\* Two reads with A and C tied at the first position, A in the first read:
\* the call returns C there.
C29_Witness ==
    /\ consensus.kind = "str"
    /\ Len(reads) = 2
    /\ Len(reads[1]) >= 1 /\ Len(reads[2]) >= 1
    /\ reads[1][1] = "A" /\ reads[2][1] = "C"
    /\ consensus.consensus[1] = "C"

-----------------------------------------------------------------------------
(* Properties of the quality mask and of the strand flip *)

\* lowQtoN has returned a string.
Masked == lowq_out.kind = "str"

\* C11: for a read and a Q-score string of the same length, lowQtoN returns
\* a string of that length whose position i is 'N' when the Q score at i is
\* below minq and is the read's character at i otherwise.
C11_MaskRule ==
    /\ (lowq_out.kind # "none" /\ Len(lowq_r) = Len(lowq_q)) => Masked
    /\ Masked =>
          /\ Len(lowq_out.str) = Len(lowq_r)
          /\ \A i \in 1..Len(lowq_r) :
                lowq_out.str[i] =
                    IF ord[lowq_q[i]] < ord[lowq_minq] THEN "N" ELSE lowq_r[i]

\* A returned read with a position masked for its Q score, a position whose
\* Q score is exactly minq and keeps a called nucleotide.
C11_Witness ==
    /\ Masked
    /\ \E i, j \in 1..Len(lowq_r) :
          /\ ord[lowq_q[i]] < ord[lowq_minq]
          /\ lowq_r[i] # "N"
          /\ lowq_out.str[i] = "N"
          /\ lowq_q[j] = lowq_minq
          /\ lowq_out.str[j] # "N"

\* C12: reverseComplement applied to its own result returns the original
\* sequence, for every sequence over A, C, G, T and N.
C12_Involution ==
    rc_twice.kind = "str" => rc_twice.str = rc_s

\* A sequence that is not its own reverse complement, flipped twice.
C12_Witness ==
    /\ rc_twice.kind = "str"
    /\ Len(rc_s) = MaxRcLen
    /\ HasN(rc_s)
    /\ rc_once.str # rc_s

-----------------------------------------------------------------------------
(* Properties of the annotation *)

\* annotateCodonCounts has returned a table for the caller's table.
Annotated == annot_df.kind = "DataFrame"

\* The cells of row i of the table passed, and of the table returned.
CountCells(i) == annot_before.rows[i].cells

AnnotCells(i) == annot_df.rows[i].cells

\* The count of the wildtype codon in row i of the table passed.
WildtypeCount(i) == CountCells(i)[CountCells(i)["wildtype"]]

\* C13: in the table annotateCodonCounts returns, ncounts is at every site
\* the sum of the counts of all codons at that site, and nstop + nsyn +
\* nnonsyn is ncounts minus the count of the site's wildtype codon.
C13_TallySum ==
    Annotated =>
        \A i \in 1..Len(annot_before.rows) :
            /\ AnnotCells(i)["ncounts"] = SumCells(CountCells(i), CodonNames)
            /\ AnnotCells(i)["nstop"] + AnnotCells(i)["nsyn"]
                    + AnnotCells(i)["nnonsyn"]
                 = AnnotCells(i)["ncounts"] - WildtypeCount(i)

\* An annotated site with wildtype counts and with stop, synonymous and
\* nonsynonymous mutations.
C13_Witness ==
    /\ Annotated
    /\ \E i \in 1..Len(annot_before.rows) :
          /\ WildtypeCount(i) > 0
          /\ AnnotCells(i)["nstop"] > 0
          /\ AnnotCells(i)["nsyn"] > 0
          /\ AnnotCells(i)["nnonsyn"] > 0

\* C14: annotateCodonCounts called on a table it returned gives a table
\* with the same columns in which every derived column has the same values.
C14_Idempotent ==
    annot_df2.kind = "DataFrame" =>
        /\ annot_df2.columns = annot_df.columns
        /\ Len(annot_df2.rows) = Len(annot_df.rows)
        /\ \A i \in 1..Len(annot_df.rows) :
              \A n \in Range(DerivedCols) :
                  annot_df2.rows[i].cells[n] = annot_df.rows[i].cells[n]

\* A table with mutations of one nucleotide, annotated twice.
C14_Witness ==
    /\ annot_df2.kind = "DataFrame"
    /\ \E i \in 1..Len(annot_df2.rows) :
          /\ annot_df2.rows[i].cells["n1nt"] > 0
          /\ annot_df2.rows[i].cells["mutfreq1nt"].num > 0

\* C15: the table annotateCodonCounts returns has every column of the
\* table passed (site, wildtype and the codon counts) with its values, the
\* derived columns are new columns beside them, and the table passed is as
\* it was before the call.
C15_NewTable ==
    Annotated =>
        /\ Len(annot_df.rows) = Len(annot_before.rows)
        /\ \A i \in 1..Len(annot_before.rows) :
              \A n \in Range(annot_before.columns) :
                  AnnotCells(i)[n] = CountCells(i)[n]
        /\ SubSeq(annot_df.columns, 1, Len(annot_before.columns))
              = annot_before.columns
        /\ SubSeq(annot_df.columns, Len(annot_before.columns) + 1,
                   Len(annot_df.columns)) = DerivedCols
        /\ annot_counts = annot_before

\* A table with counts has been annotated.
C15_Witness ==
    /\ Annotated
    /\ annot_df2.kind = "none"
    /\ \A i \in 1..Len(annot_before.rows) : AnnotCells(i)["ncounts"] > 0

\* The float x is 0, and the float x is a / b.
IsZero(x) == x.den # 0 /\ x.num = 0

IsRatio(x, a, b) == x.den # 0 /\ b # 0 /\ x.num * b = a * x.den

\* C20: at a site whose counts sum to 0, mutfreq, mutfreq1nt, mutfreq2nt
\* and mutfreq3nt are 0; at a site with ncounts > 0, mutfreq is
\* (ncounts - wildtype count) / ncounts and mutfreqKnt is nKnt / ncounts.
C20_Frequencies ==
    Annotated =>
        \A i \in 1..Len(annot_before.rows) :
            LET c == AnnotCells(i)
            IN  IF SumCells(CountCells(i), CodonNames) = 0
                THEN /\ IsZero(c["mutfreq"])
                     /\ IsZero(c["mutfreq1nt"])
                     /\ IsZero(c["mutfreq2nt"])
                     /\ IsZero(c["mutfreq3nt"])
                ELSE /\ IsRatio(c["mutfreq"], c["ncounts"] - WildtypeCount(i),
                                c["ncounts"])
                     /\ IsRatio(c["mutfreq1nt"], c["n1nt"], c["ncounts"])
                     /\ IsRatio(c["mutfreq2nt"], c["n2nt"], c["ncounts"])
                     /\ IsRatio(c["mutfreq3nt"], c["n3nt"], c["ncounts"])

\* An annotated table with a site without counts and a site with mutations.
C20_Witness ==
    /\ Annotated
    /\ \E i, j \in 1..Len(annot_before.rows) :
          /\ SumCells(CountCells(i), CodonNames) = 0
          /\ AnnotCells(j)["ncounts"] > WildtypeCount(j)
          /\ WildtypeCount(j) > 0

-----------------------------------------------------------------------------
(* Properties of the error adjustment *)

\* adjustErrorCounts has returned a table.
Adjusted == adj_out.kind = "DataFrame"

\* The cells of the row of a table at a site.
CellsAt(df, site) ==
    df.rows[CHOOSE i \in 1..Len(df.rows) : df.rows[i].cells["site"] = site].cells

ErrSites == Range(SiteColumn(adj_errcounts))

\* The sum of the counts of the characters at a site of a table.
CharTotal(df, site) == SumCells(CellsAt(df, site), Range(Charlist))

\* C16: in the table adjustErrorCounts returns, the count of a site's
\* wildtype character is the count the error control has for it, whatever
\* the sample counts and maxexcess are.
C16_WildtypeKept ==
    Adjusted =>
        \A site \in ErrSites :
            LET w == CellsAt(adj_errcounts, site)["wildtype"]
            IN  CellsAt(adj_out, site)[w] = CellsAt(adj_errcounts, site)[w]

\* m is round(n / d) for d > 0: no integer is nearer to n / d, and of two
\* nearest integers m is the even one.
IsRounded(m, n, d) ==
    LET gap == IF n >= m * d THEN n - m * d ELSE m * d - n
    IN  /\ 2 * gap <= d
        /\ 2 * gap = d => m % 2 = 0

\* maxAllowed of a character at a site with a positive sample total:
\* round(sampleCount / sampleTotal * errorTotal + maxexcess).
MaxAllowed(site, c) ==
    LET d == CharTotal(adj_counts, site)
        n == CellsAt(adj_counts, site)[c] * CharTotal(adj_errcounts, site)
               + adj_maxexcess * d
    IN  CHOOSE m \in (n \div d)..((n \div d) + 1) : IsRounded(m, n, d)

\* A returned table with a site whose wildtype count in the error control
\* is above what the sample would allow.
C16_Witness ==
    /\ Adjusted
    /\ \E site \in ErrSites :
          LET w == CellsAt(adj_errcounts, site)["wildtype"]
          IN  /\ CellsAt(adj_errcounts, site)[w] > MaxAllowed(site, w)
              /\ CellsAt(adj_out, site)[w] > MaxAllowed(site, w)

\* The characters of charlist other than the wildtype of a site.
NonWildtype(site) ==
    Range(Charlist) \ {CellsAt(adj_errcounts, site)["wildtype"]}

\* C17: in the table returned, at every site with a positive sample total
\* and for every character of charlist other than the wildtype, the count is
\* the error control's count when that is at most maxAllowed and is
\* maxAllowed otherwise.
C17_Clamp ==
    Adjusted =>
        \A site \in ErrSites :
            CharTotal(adj_counts, site) > 0 =>
                \A c \in NonWildtype(site) :
                    CellsAt(adj_out, site)[c] =
                        IF CellsAt(adj_errcounts, site)[c] <= MaxAllowed(site, c)
                        THEN CellsAt(adj_errcounts, site)[c]
                        ELSE MaxAllowed(site, c)

\* A returned table with a count below maxAllowed that was kept and a
\* count that was lowered to a maxAllowed rounded from a half.
C17_Witness ==
    /\ Adjusted
    /\ \E site \in ErrSites :
          \E c \in NonWildtype(site) :
              /\ CellsAt(adj_errcounts, site)[c] < MaxAllowed(site, c)
              /\ CellsAt(adj_errcounts, site)[c] > 0
    /\ \E site \in ErrSites :
          \E c \in NonWildtype(site) :
              /\ CellsAt(adj_errcounts, site)[c] > MaxAllowed(site, c)
              /\ CellsAt(adj_out, site)[c] = MaxAllowed(site, c)
              /\ 2 * ((CellsAt(adj_counts, site)[c]
                          * CharTotal(adj_errcounts, site))
                       % CharTotal(adj_counts, site))
                   = CharTotal(adj_counts, site)

\* C18: the table returned has the columns of errcounts, and every column
\* that is not in charlist (site, wildtype, any other column) carries the
\* values of errcounts.
C18_CopyOfErrcounts ==
    Adjusted =>
        /\ Range(adj_out.columns) = Range(adj_errcounts.columns)
        /\ \A site \in ErrSites :
              \A col \in Range(adj_errcounts.columns) \ Range(Charlist) :
                  CellsAt(adj_out, site)[col] = CellsAt(adj_errcounts, site)[col]

\* The two tables do not list the same sites, or their wildtypes differ at
\* a site.
Mismatch ==
    \/ SiteColumn(adj_counts) # SiteColumn(adj_errcounts)
    \/ \E site \in ErrSites \cap Range(SiteColumn(adj_counts)) :
          CellsAt(adj_counts, site)["wildtype"]
              # CellsAt(adj_errcounts, site)["wildtype"]

\* C19: when the two tables do not have identical site lists, or their
\* wildtype columns differ at a site, adjustErrorCounts raises and returns
\* no table.
C19_SiteMismatch ==
    (adj_out.kind # "none" /\ Mismatch) =>
        adj_out.kind \in {"AssertionError", "ValueError"}

\* A call on tables with the same sites and another wildtype at one of them
\* has raised.
C19_Witness ==
    /\ adj_out.kind = "AssertionError"
    /\ SiteColumn(adj_counts) = SiteColumn(adj_errcounts)
    /\ Mismatch

-----------------------------------------------------------------------------
(* Properties of the aligner's failures *)

\* C21: alignSubamplicon fails with an error, rather than returning a
\* subamplicon or a rejection value, whenever refseqstart < 1, refseqend <
\* refseqstart or refseqend is greater than the length of the reference.
C21_InvalidCoordinates ==
    (Called /\ BadCoordinates(refseqstart, refseqend)) =>
        aligned.kind \notin {"str", "False"}

\* C22: when a gate rejects the read pair, alignSubamplicon returns None.
C22_RejectIsNone ==
    (Called /\ aligned.gate \in {"maxN", "maxmuts"}) => aligned.kind = "None"

-----------------------------------------------------------------------------
(* Properties of the renumbering *)

\* Input file k has a site that is not in the column 'original'.
HasAbsentSite(k) == ~(Range(infiles[k]) \subseteq OriginalSites(renumb))

\* C23: with missing = 'error', renumberSites raises for every input file
\* that has a site absent from the column 'original' of the renumbering
\* file, and writes no output for that file.
C23_MissingError ==
    (renumbered.kind # "none" /\ missing = "error") =>
        \A k \in 1..Len(infiles) :
            HasAbsentSite(k) =>
                /\ renumbered.kind = "ValueError"
                /\ renumbered.written[k] = <<"unwritten">>

-----------------------------------------------------------------------------
(* Properties of the annotation's tallies *)

\* The codon columns that translate to a stop, and the amino acid of a
\* codon column.
StopCodons == {n \in CodonNames : CODON_TO_AA[CodonOf[n]] = "*"}

AminoAcidOf(n) == CODON_TO_AA[CodonOf[n]]

\* The non-wildtype codon columns of row i that hold a count.
Mutants(i) == Counted(CountCells(i)) \ {CountCells(i)["wildtype"]}

\* C24: at every site a non-wildtype codon's count is added to exactly one
\* of nstop, nsyn and nnonsyn: to nstop when the codon is a stop codon (also
\* at a site whose wildtype is a stop codon), else to nsyn when it encodes
\* the wildtype's amino acid, else to nnonsyn; the wildtype codon's count is
\* added to none.
C24_Classes ==
    Annotated =>
        \A i \in 1..Len(annot_before.rows) :
            LET wtaa == AminoAcidOf(CountCells(i)["wildtype"])
                stop == Mutants(i) \cap StopCodons
                syn == {n \in Mutants(i) \ StopCodons : AminoAcidOf(n) = wtaa}
                nonsyn == {n \in Mutants(i) \ StopCodons : AminoAcidOf(n) # wtaa}
            IN  /\ AnnotCells(i)["nstop"] = SumCells(CountCells(i), stop)
                /\ AnnotCells(i)["nsyn"] = SumCells(CountCells(i), syn)
                /\ AnnotCells(i)["nnonsyn"] = SumCells(CountCells(i), nonsyn)

\* An annotated site whose wildtype is a stop codon, with counts of the
\* wildtype, of another stop codon and of a codon for an amino acid.
C24_Witness ==
    /\ Annotated
    /\ \E i \in 1..Len(annot_before.rows) :
          /\ CountCells(i)["wildtype"] \in StopCodons
          /\ WildtypeCount(i) > 0
          /\ \E n \in Mutants(i) \cap StopCodons : CountCells(i)[n] > 0
          /\ AnnotCells(i)["nstop"] > 0
          /\ AnnotCells(i)["nnonsyn"] > 0

-----------------------------------------------------------------------------
(* Properties of the pipeline of one read pair *)

\* The accepted subamplicon has been counted.
Counted1 == aligned.kind = "str" /\ Len(applied) = 1

\* The sites at which the call added a count, and those at which it added
\* one to a codon that is not the reference codon.
CountedSites ==
    {s \in 1..codonlen : \E c \in DOMAIN counts : counts[c][s] > prevcounts[c][s]}

MutantSites ==
    {s \in 1..codonlen :
        \E c \in DOMAIN counts \ {RefCodon(s)} : counts[c][s] > prevcounts[c][s]}

\* At most one count is added at every site.
OnePerSite ==
    \A s \in 1..codonlen :
        /\ \A c \in DOMAIN counts : counts[c][s] <= prevcounts[c][s] + 1
        /\ Cardinality({c \in DOMAIN counts : counts[c][s] > prevcounts[c][s]}) <= 1

\* C26 as stated: the sites counted for an accepted pair are the covered
\* codons, the ones the mutation gate compared.
C26_CountsCompared ==
    Counted1 =>
        /\ err = "none"
        /\ CountedSites = ComparedCodons
        /\ CountedSites = CoveredCodons
        /\ OnePerSite
        /\ Cardinality(MutantSites) <= maxmuts

\* C26: when alignSubamplicon accepts a pair, incrementCounts on the
\* returned subamplicon counts exactly the codons the mutation gate compared
\* (the covered codons) that hold no N, adds at most one count per site, and
\* counts a codon other than the reference codon at no more than maxmuts
\* sites.
C26_CountsComparedWithoutN ==
    Counted1 =>
        /\ err = "none"
        /\ ComparedCodons = CoveredCodons
        /\ CountedSites =
              {k \in ComparedCodons : ~HasN(SubCodon(aligned.merged, k))}
        /\ OnePerSite
        /\ Cardinality(MutantSites) <= maxmuts

\* An accepted pair with two covered codons: the first is a mutation and is
\* counted, the second holds an N and is not.
C26_Witness ==
    /\ Counted1
    /\ CoveredCodons = {1, 2}
    /\ maxmuts = 1 /\ maxN = 1
    /\ HasN(SubCodon(aligned.merged, 2))
    /\ CountedSites = {1}
    /\ MutantSites = {1}

\* The codon columns got from the wildtype of row i by changing one
\* position from x to y.
SingleChanges(i, x, y) ==
    LET wt == CodonOf[CountCells(i)["wildtype"]]
    IN  {CodonName([wt EXCEPT ![k] = y]) : k \in {j \in 1..3 : wt[j] = x}}

\* The twelve columns of the nucleotide changes.
ChangeColumns == {x \o "to" \o y : <<x, y>> \in {p \in NTS \X NTS : p[1] # p[2]}}

\* C27: at every site n1nt + n2nt + n3nt is ncounts minus the count of the
\* wildtype codon, the twelve columns XtoY sum to n1nt, and the count of a
\* codon that differs from the wildtype at one position is added to the
\* column that names the wildtype's and the codon's nucleotide at that
\* position, and to no other.
C27_NtChanges ==
    Annotated =>
        \A i \in 1..Len(annot_before.rows) :
            /\ AnnotCells(i)["n1nt"] + AnnotCells(i)["n2nt"] + AnnotCells(i)["n3nt"]
                 = AnnotCells(i)["ncounts"] - WildtypeCount(i)
            /\ SumCells(AnnotCells(i), ChangeColumns) = AnnotCells(i)["n1nt"]
            /\ \A x \in NTS : \A y \in NTS \ {x} :
                  AnnotCells(i)[x \o "to" \o y]
                    = SumCells(CountCells(i), SingleChanges(i, x, y))

\* An annotated site of wildtype TGA with counts of the wildtype, of TAA
\* (one change, G to A), and of codons with two and with three changes.
C27_Witness ==
    /\ Annotated
    /\ \E i \in 1..Len(annot_before.rows) :
          /\ CountCells(i)["wildtype"] = "TGA"
          /\ WildtypeCount(i) > 0
          /\ CountCells(i)["TAA"] > 0
          /\ AnnotCells(i)["GtoA"] > 0
          /\ AnnotCells(i)["AtoG"] = 0
          /\ AnnotCells(i)["n2nt"] > 0
          /\ AnnotCells(i)["n3nt"] > 0

-----------------------------------------------------------------------------
(* Properties of the adjusted counts *)

\* The tables passed hold no negative count and maxexcess is not negative.
NonNegativeInput ==
    /\ adj_maxexcess >= 0
    /\ \A df \in {adj_errcounts, adj_counts} :
          \A i \in 1..Len(df.rows) :
              \A c \in Range(Charlist) : df.rows[i].cells[c] >= 0

\* C28: for tables without negative counts, positive sample totals and
\* maxexcess >= 0, every count of the table returned is at least 0 and at
\* most the count the error control has for the character at the site.
C28_WithinErrorCount ==
    (Adjusted /\ NonNegativeInput) =>
        \A site \in ErrSites :
            CharTotal(adj_counts, site) > 0 =>
                \A c \in Range(Charlist) :
                    /\ CellsAt(adj_out, site)[c] >= 0
                    /\ CellsAt(adj_out, site)[c] <= CellsAt(adj_errcounts, site)[c]

\* A returned table, maxexcess > 0, with a count that was lowered and a
\* count that stayed as it was, below what is allowed.
C28_Witness ==
    /\ Adjusted
    /\ NonNegativeInput
    /\ adj_maxexcess > 0
    /\ \E site \in ErrSites :
          /\ CharTotal(adj_counts, site) > 0
          /\ \E c \in NonWildtype(site) :
                /\ CellsAt(adj_errcounts, site)[c] > 0
                /\ CellsAt(adj_out, site)[c] < CellsAt(adj_errcounts, site)[c]
          /\ \E c \in NonWildtype(site) :
                /\ CellsAt(adj_errcounts, site)[c] < MaxAllowed(site, c)
                /\ CellsAt(adj_out, site)[c] = CellsAt(adj_errcounts, site)[c]

=============================================================================
